---------------------------- MODULE Spec2Model ----------------------------
(***************************************************************************)
(* Model of backend/train.py: the conditional-logit training pipeline      *)
(* (load -> reshape -> split -> schema/scaler -> optimise -> evaluate ->   *)
(* persist) and the inference path (encode_for_inference, predict_choice). *)
(*                                                                         *)
(* Data frames are sequences of rows, a row is a function from column      *)
(* names to values.  Floating point numbers are modelled by integers       *)
(* (division is integer division); NaN is one reserved integer.  A text    *)
(* the code parses (the choice field, a numeric cell of the CSV file) is a *)
(* sequence of lexemes.  A call result is a record [exc, val]: exc is      *)
(* "none" when the call returns val, otherwise the name of the exception   *)
(* that propagates.  A variable not yet assigned holds None (records), the *)
(* empty sequence or the empty set.                                        *)
(***************************************************************************)
EXTENDS Integers, Sequences, FiniteSets, TLC

VARIABLES
    csv,            \* content of Car.csv on disk: a wide table, or "missing"
    pc,             \* position of main() / of the inference client
    df,             \* the wide table returned by load_data
    long_df,        \* the long table returned by reshape_to_long_format
    warnings,       \* indices of wide rows for which the default-to-1 warning was printed
    train_ids,      \* train_choice_sets
    val_ids,        \* val_choice_sets
    feature_schema, \* main's feature_schema
    scaler,         \* main's scaler
    train_xy,       \* main's (y_train, X_train, feature_names, train_choice_set_ids)
    val_xy,         \* main's (y_val, X_val, val_choice_set_ids)
    model,          \* main's model (result of train_mnl_model)
    metrics,        \* train_metrics, val_metrics
    pkl,            \* content of mnl_model.pkl on disk
    coeff_csv,      \* content of mnl_coefficients.csv on disk
    trace,          \* ghost: the calls main has made so far, in order
    artifact,       \* inference client: the model dict it loaded
    request,        \* inference client: (df_candidates, user_profile) of the current call
    infer_X,        \* inference client: result of encode_for_inference
    probs,          \* inference client: result of predict_choice
    error           \* the exception that ended main or the inference call, if any

vars == << csv, pc, df, long_df, warnings, train_ids, val_ids, feature_schema,
           scaler, train_xy, val_xy, model, metrics, pkl, coeff_csv, trace,
           artifact, request, infer_X, probs, error >>

None == [ none |-> TRUE ]

\* float('nan'): a value no computation on the inputs of the model produces
NaN == -1000000

Ok(v)    == [exc |-> "none", val |-> v]
Raise(e) == [exc |-> e, val |-> 0]

NoError == [ at |-> "", exc |-> "none" ]

-----------------------------------------------------------------------------
(* Bounds of the model *)

MaxSets      == 2   \* rows of the wide table when reshape is checked on its own
MaxFileSets  == 3   \* rows of Car.csv in the pipeline runs
MaxCands     == 2   \* candidates of one inference call
MaxSeed      == 1   \* coefficient vectors the optimiser may return: seeds 0..MaxSeed
MaxSkew      == 1   \* a model file's coefficients are up to MaxSkew longer or shorter than its schema
MaxLongSets  == 3   \* choice sets of a long table when prepare_model_data is checked on its own

-----------------------------------------------------------------------------
(* Program constants *)

n_alternatives == 6
BASE_TYPE == "van"
BASE_FUEL == "gasoline"

Min(a, b) == IF a <= b THEN a ELSE b

Range(s) == { s[i] : i \in DOMAIN s }

RECURSIVE SumSeq(_)
SumSeq(s) == IF s = << >> THEN 0 ELSE s[1] + SumSeq(Tail(s))

\* the elements of a set of integers in ascending order
RECURSIVE SortedSeq(_)
SortedSeq(S) ==
    IF S = {} THEN << >>
    ELSE LET m == CHOOSE x \in S : \A y \in S : x <= y
         IN  << m >> \o SortedSeq(S \ {m})

-----------------------------------------------------------------------------
(* Python string handling on the choice field *)

Digits == << "0", "1", "2", "3", "4", "5", "6", "7", "8", "9" >>
IsDigit(c) == \E i \in DOMAIN Digits : Digits[i] = c
DigitVal(c) == (CHOOSE i \in DOMAIN Digits : Digits[i] = c) - 1

\* str.strip(): drop leading and trailing blanks
RECURSIVE LStrip(_)
LStrip(s) == IF s # << >> /\ s[1] = " " THEN LStrip(Tail(s)) ELSE s
RECURSIVE RStrip(_)
RStrip(s) == IF s # << >> /\ s[Len(s)] = " " THEN RStrip(SubSeq(s, 1, Len(s) - 1)) ELSE s
Strip(s) == RStrip(LStrip(s))

RECURSIVE DigitsValue(_)
DigitsValue(s) ==
    IF s = << >> THEN 0
    ELSE 10 * DigitsValue(SubSeq(s, 1, Len(s) - 1)) + DigitVal(s[Len(s)])

\* int(str): surrounding blanks allowed, an optional sign, then digits only
PyInt(s) ==
    LET t    == Strip(s)
        neg  == t # << >> /\ t[1] = "-"
        body == IF neg THEN Tail(t) ELSE t
    IN  IF body # << >> /\ \A i \in DOMAIN body : IsDigit(body[i])
        THEN Ok(IF neg THEN 0 - DigitsValue(body) ELSE DigitsValue(body))
        ELSE Raise("ValueError")

\* choice_str.startswith('choice'), choice_str.replace('choice', '')
StartsWithChoice(s) == s # << >> /\ s[1] = "choice"
RemoveChoice(s) == SelectSeq(s, LAMBDA c : c # "choice")

\* train.py 65-74: [exc, val, warned]
ParseChoice(raw) ==
    LET choice_str == Strip(raw)
    IN  IF StartsWithChoice(choice_str)
        THEN LET r == PyInt(RemoveChoice(choice_str))
             IN  [exc |-> r.exc, val |-> r.val, warned |-> FALSE]
        ELSE LET r == PyInt(choice_str)
             IN  IF r.exc = "none"
                 THEN [exc |-> "none", val |-> r.val, warned |-> FALSE]
                 ELSE [exc |-> "none", val |-> 1, warned |-> TRUE]

-----------------------------------------------------------------------------
(* String normalisation and numeric coercion *)

\* .str.strip().str.lower() on the category strings the inputs use
NormTable ==
    [ s \in { "van", " Van ", "suv", "SUV", "truck", "gasoline", "Gasoline ",
              "electric", "hybrid", "cng", "wagon", "diesel" } |->
        CASE s = " Van "     -> "van"
          [] s = "SUV"       -> "suv"
          [] s = "Gasoline " -> "gasoline"
          [] OTHER           -> s ]
Normalize(s) == NormTable[s]

\* sorted() on the normalised category strings
LexOrder == << "cng", "diesel", "electric", "gasoline", "hybrid", "suv", "truck", "van", "wagon" >>
SortedStrings(S) == SelectSeq(LexOrder, LAMBDA x : x \in S)

\* the text of a number 0..9, as a cell of the CSV file holds it
Lit(n) == << Digits[n + 1] >>

\* pd.to_numeric(errors='coerce'): the number a cell spells, NaN when it spells none
ToNumeric(cell) == LET r == PyInt(cell) IN IF r.exc = "none" THEN r.val ELSE NaN

numeric_cols == << "price", "speed", "pollution", "size", "college", "hsg2", "coml5" >>

-----------------------------------------------------------------------------
(* reshape_to_long_format *)

\* row.get(col, 0) on a wide row
RowGet(row, col, default) == IF col \in DOMAIN row THEN row[col] ELSE default

\* train.py 77-92: the long row of alternative alt of wide row number idx
LongRow(row, idx, alt, chosen_alt) ==
    [ choice_set_id  |-> idx,
      alternative_id |-> alt,
      choice         |-> IF alt = chosen_alt THEN 1 ELSE 0,
      type           |-> row.alts[alt].type,
      fuel           |-> row.alts[alt].fuel,
      price          |-> row.alts[alt].price,
      speed          |-> row.alts[alt].speed,
      pollution      |-> row.alts[alt].pollution,
      size           |-> row.alts[alt].size,
      college        |-> RowGet(row, "college", Lit(0)),
      hsg2           |-> RowGet(row, "hsg2", Lit(0)),
      coml5          |-> RowGet(row, "coml5", Lit(0)) ]

\* train.py 105-112: normalise the strings, coerce the numerics
CleanRow(r) ==
    [ r EXCEPT !.type = Normalize(@), !.fuel = Normalize(@),
               !.price = ToNumeric(@), !.speed = ToNumeric(@),
               !.pollution = ToNumeric(@), !.size = ToNumeric(@),
               !.college = ToNumeric(@), !.hsg2 = ToNumeric(@),
               !.coml5 = ToNumeric(@) ]

\* train.py 116: long_df[numeric_cols].isna().any(axis=1)
NanMask(r) == \E i \in DOMAIN numeric_cols : r[numeric_cols[i]] = NaN

\* train.py 117-121: drop every choice set that has a row with a NaN
DropInvalidMutNoDrop(rows) == rows
DropInvalid(rows) ==
    LET invalid_choice_sets == { rows[i].choice_set_id : i \in { j \in DOMAIN rows : NanMask(rows[j]) } }
    IN  SelectSeq(rows, LAMBDA r : r.choice_set_id \notin invalid_choice_sets)

ChoiceSetIds(rows) == { rows[i].choice_set_id : i \in DOMAIN rows }
RowsOf(rows, id) == SelectSeq(rows, LAMBDA r : r.choice_set_id = id)

\* train.py 124-125: every group has n_alternatives rows
AltCountsOk(rows) == \A id \in ChoiceSetIds(rows) : Len(RowsOf(rows, id)) = n_alternatives

\* train.py 129-130: every group's choice column sums to 1
ChoiceCountsOkMutAtMostOne(rows) ==
    \A id \in ChoiceSetIds(rows) :
        SumSeq([ i \in DOMAIN RowsOf(rows, id) |-> RowsOf(rows, id)[i].choice ]) <= 1
ChoiceCountsOk(rows) ==
    \A id \in ChoiceSetIds(rows) :
        SumSeq([ i \in DOMAIN RowsOf(rows, id) |-> RowsOf(rows, id)[i].choice ]) = 1

\* train.py 60-112: the long table before any row is dropped
BuildLong(wide, parsed) ==
    [ j \in 1..(n_alternatives * Len(wide)) |->
        CleanRow(LongRow(wide[((j - 1) \div n_alternatives) + 1],
                         (j - 1) \div n_alternatives,
                         ((j - 1) % n_alternatives) + 1,
                         parsed[((j - 1) \div n_alternatives) + 1].val)) ]

\* train.py 123-134: the group checks on the rows kept
Validate(kept, warned) ==
    IF ~AltCountsOk(kept) \/ ~ChoiceCountsOk(kept)
    THEN [ exc |-> "ValueError", val |-> << >>, warnings |-> warned ]
    ELSE [ exc |-> "none", val |-> kept, warnings |-> warned ]

\* train.py 60-134, given what lines 65-74 make of each row's choice field: the
\* loop stops at the first row whose choice field raises
ReshapeParsed(wide, parsed) ==
    LET failing == { i \in DOMAIN wide : parsed[i].exc # "none" }
        stop    == IF failing = {} THEN Len(wide) + 1
                   ELSE CHOOSE i \in failing : \A j \in failing : i <= j
        warned  == { i - 1 : i \in { j \in DOMAIN wide : j < stop /\ parsed[j].warned } }
    IN  IF failing # {}
        THEN [ exc |-> parsed[stop].exc, val |-> << >>, warnings |-> warned ]
        ELSE Validate(DropInvalid(BuildLong(wide, parsed)), warned)

\* train.py 30-134: [exc, val, warnings]; wide row number i has index i - 1
ReshapeToLongFormat(wide) ==
    ReshapeParsed(wide, [ i \in DOMAIN wide |-> ParseChoice(wide[i].choice) ])

-----------------------------------------------------------------------------
(* encode_categorical_features *)

numeric_features     == << "price", "speed", "pollution", "size" >>
interaction_features == << "college_x_fuel_electric", "hsg2_x_size", "coml5_x_price" >>
original_cols        == << "choice_set_id", "alternative_id", "choice", "college", "hsg2", "coml5" >>

\* train.py 205-208: asc_alt2 .. asc_alt6
asc_features == [ i \in 1..5 |-> "asc_alt" \o Digits[i + 2] ]
AscAlt(name) == 1 + CHOOSE i \in 1..5 : asc_features[i] = name

\* (series == level).astype(int)
IndicatorMutInverted(value, level) == IF value # level THEN 1 ELSE 0
Indicator(value, level) == IF value = level THEN 1 ELSE 0

\* train.py 185-186, 193-194: the non-base levels, sorted
IndicatorLevelsMutKeepBase(values, base) == SortedStrings(Range(values))
IndicatorLevels(values, base) ==
    SelectSeq(SortedStrings(Range(values)), LAMBDA v : v # base)

\* train.py 187-189, 195-197: the indicator names, in the order of the levels
IndicatorNames(prefix, values, base) ==
    [ i \in DOMAIN IndicatorLevels(values, base) |-> prefix \o IndicatorLevels(values, base)[i] ]

\* train.py 183-197: the indicator columns of one row for one categorical column
IndicatorColumns(prefix, value, values, base) ==
    [ c \in Range(IndicatorNames(prefix, values, base)) |->
        Indicator(value, CHOOSE v \in Range(IndicatorLevels(values, base)) : prefix \o v = c) ]

\* a row with more columns: an assigned column replaces one of the same name
Assign(row, cols) == cols @@ row

\* df[cols]: the row restricted to the columns named
Restrict(row, cols) == [ c \in cols |-> row[c] ]

\* train.py 150-152: the strings normalised
NormalizeRows(rows) ==
    [ i \in DOMAIN rows |-> [ rows[i] EXCEPT !.type = Normalize(@), !.fuel = Normalize(@) ] ]

\* train.py 183-208: a row with its indicator and ASC columns
EncodeRow(row, type_values, fuel_values, type_base, fuel_base) ==
    Assign(row,
        IndicatorColumns("type_", row.type, type_values, type_base)
        @@ IndicatorColumns("fuel_", row.fuel, fuel_values, fuel_base)
        @@ [ c \in Range(asc_features) |-> Indicator(row.alternative_id, AscAlt(c)) ])

\* train.py 215-227: the schema built from the levels of the data
BuildSchemaDict(type_values, fuel_values, type_base, fuel_base) ==
    [ type_base            |-> type_base,
      fuel_base            |-> fuel_base,
      type_categories      |-> type_values,
      fuel_categories      |-> fuel_values,
      type_features        |-> IndicatorNames("type_", type_values, type_base),
      fuel_features        |-> IndicatorNames("fuel_", fuel_values, fuel_base),
      numeric_features     |-> numeric_features,
      asc_features         |-> asc_features,
      interaction_features |-> interaction_features,
      feature_cols         |-> IndicatorNames("type_", type_values, type_base)
                               \o IndicatorNames("fuel_", fuel_values, fuel_base)
                               \o numeric_features \o asc_features \o interaction_features ]

EncodeFailed(e) ==
    [ exc |-> e, encoded_df |-> << >>, feature_cols |-> << >>, feature_schema |-> None ]

\* train.py 161-174, 183-227: no schema given, the levels come from the data
EncodeBuildMutTypeOnly(norm, type_values, fuel_values, type_base, fuel_base) ==
    IF type_base \notin Range(type_values)
    THEN EncodeFailed("ValueError")
    ELSE [ exc            |-> "none",
           encoded_df     |-> [ i \in DOMAIN norm |->
                                  EncodeRow(norm[i], type_values, fuel_values, type_base, fuel_base) ],
           feature_cols   |-> BuildSchemaDict(type_values, fuel_values, type_base, fuel_base).feature_cols,
           feature_schema |-> BuildSchemaDict(type_values, fuel_values, type_base, fuel_base) ]
EncodeBuild(norm, type_values, fuel_values, type_base, fuel_base) ==
    IF type_base \notin Range(type_values) \/ fuel_base \notin Range(fuel_values)
    THEN EncodeFailed("ValueError")
    ELSE [ exc            |-> "none",
           encoded_df     |-> [ i \in DOMAIN norm |->
                                  EncodeRow(norm[i], type_values, fuel_values, type_base, fuel_base) ],
           feature_cols   |-> BuildSchemaDict(type_values, fuel_values, type_base, fuel_base).feature_cols,
           feature_schema |-> BuildSchemaDict(type_values, fuel_values, type_base, fuel_base) ]

\* train.py 229-244: the schema's columns, missing ones as zeros, and of the
\* other columns only the original ones
KeepSchemaColumns(row, feature_cols) ==
    Restrict(row @@ [ c \in Range(feature_cols) \ DOMAIN row |-> 0 ],
             (Range(original_cols) \cap DOMAIN row) \cup Range(feature_cols))

\* train.py 175-208, 228-244: a schema given, its levels and bases are used
EncodeWithSchema(norm, schema) ==
    [ exc            |-> "none",
      encoded_df     |-> [ i \in DOMAIN norm |->
                             KeepSchemaColumns(
                                 EncodeRow(norm[i], schema.type_categories, schema.fuel_categories,
                                           schema.type_base, schema.fuel_base),
                                 schema.feature_cols) ],
      feature_cols   |-> schema.feature_cols,
      feature_schema |-> schema ]

EncodeNormalized(norm, schema_in) ==
    IF schema_in = None
    THEN EncodeBuild(norm,
                     SortedStrings({ norm[i].type : i \in DOMAIN norm }),
                     SortedStrings({ norm[i].fuel : i \in DOMAIN norm }),
                     Normalize(BASE_TYPE), Normalize(BASE_FUEL))
    ELSE EncodeWithSchema(norm, schema_in)

\* train.py 136-249: [exc, encoded_df, feature_cols, feature_schema]
EncodeCategoricalFeatures(rows, schema_in) == EncodeNormalized(NormalizeRows(rows), schema_in)

-----------------------------------------------------------------------------
(* StandardScaler *)

ISqrt(n) == CHOOSE r \in 0..n : r * r <= n /\ (r + 1) * (r + 1) > n

\* StandardScaler().fit(X): per column the mean and the population standard
\* deviation; a zero deviation is replaced by 1
StandardScalerFit(rows, cols) ==
    LET n == Len(rows)
        mean(c) == SumSeq([ i \in DOMAIN rows |-> rows[i][c] ]) \div n
        var(c)  == SumSeq([ i \in DOMAIN rows |-> (rows[i][c] - mean(c)) * (rows[i][c] - mean(c)) ]) \div n
        std(c)  == IF ISqrt(var(c)) = 0 THEN 1 ELSE ISqrt(var(c))
    IN  [ mean_ |-> [ c \in Range(cols) |-> mean(c) ],
          scale_ |-> [ c \in Range(cols) |-> std(c) ] ]

\* scaler.transform(X): (x - mean) / std on every column
Transform(sc, row, cols) ==
    Assign(row, [ c \in Range(cols) |-> (row[c] - sc.mean_[c]) \div sc.scale_[c] ])

\* encoded_df[numeric_features] = scaler.transform(encoded_df[numeric_features]):
\* the rows scaled, and the scaler object as the call leaves it
ApplyScalerMutFitTransform(sc, rows, cols) ==
    LET refit == StandardScalerFit(rows, cols)
    IN  [ rows   |-> [ i \in DOMAIN rows |-> Transform(refit, rows[i], cols) ],
          scaler |-> refit ]
ApplyScaler(sc, rows, cols) ==
    [ rows   |-> [ i \in DOMAIN rows |-> Transform(sc, rows[i], cols) ],
      scaler |-> sc ]

-----------------------------------------------------------------------------
(* prepare_model_data *)

\* train.py 270-287 (and 493-507): the interaction columns, from the columns as they are
AddInteractions(row, schema) ==
    Assign(row,
        [ c \in Range(interaction_features) |->
            CASE c = "college_x_fuel_electric" ->
                    IF "fuel_electric" \in Range(schema.fuel_features)
                    THEN row["college"] * row["fuel_electric"] ELSE 0
              [] c = "hsg2_x_size"   -> row["hsg2"] * row["size"]
              [] c = "coml5_x_price" -> row["coml5"] * row["price"] ])

\* the interaction columns added to every row
InteractRows(scaled, schema) ==
    [ rows   |-> [ i \in DOMAIN scaled.rows |-> AddInteractions(scaled.rows[i], schema) ],
      scaler |-> scaled.scaler ]

\* train.py 265-287: scale when a scaler is given, then add the interactions
ScaleAndInteractMutInteractFirst(rows, schema, sc) ==
    IF sc = None
    THEN InteractRows([ rows |-> rows, scaler |-> sc ], schema)
    ELSE ApplyScaler(sc, InteractRows([ rows |-> rows, scaler |-> sc ], schema).rows,
                     schema.numeric_features)
ScaleAndInteract(rows, schema, sc) ==
    IF sc = None
    THEN InteractRows([ rows |-> rows, scaler |-> sc ], schema)
    ELSE InteractRows(ApplyScaler(sc, rows, schema.numeric_features), schema)

\* group.sort_values('alternative_id'): a stable insertion sort
InsertByAlternative(sorted, row) ==
    SelectSeq(sorted, LAMBDA r : r.alternative_id <= row.alternative_id)
    \o << row >>
    \o SelectSeq(sorted, LAMBDA r : r.alternative_id > row.alternative_id)
RECURSIVE SortByAlternative(_)
SortByAlternative(rows) ==
    IF rows = << >> THEN << >>
    ELSE InsertByAlternative(SortByAlternative(SubSeq(rows, 1, Len(rows) - 1)), rows[Len(rows)])

\* group.reindex(columns=feature_cols, fill_value=0)[feature_cols].values
ReindexMutStorageOrder(row, feature_cols) ==
    LET stored == SelectSeq(feature_cols, LAMBDA c : c \in Range(numeric_features))
                  \o SelectSeq(feature_cols, LAMBDA c : c \notin Range(numeric_features))
    IN  [ k \in DOMAIN stored |-> IF stored[k] \in DOMAIN row THEN row[stored[k]] ELSE 0 ]
Reindex(row, feature_cols) ==
    [ k \in DOMAIN feature_cols |->
        IF feature_cols[k] \in DOMAIN row THEN row[feature_cols[k]] ELSE 0 ]

PrepareFailed(e, sc) ==
    [ exc |-> e, y_list |-> << >>, X_list |-> << >>, feature_cols |-> << >>,
      feature_schema |-> None, choice_set_ids |-> << >>, scaler |-> sc ]

\* train.py 304-320: the checks on each group, and the result
PrepareChecked(y_list, X_list, ids, schema, sc) ==
    IF \E k \in DOMAIN y_list : SumSeq(y_list[k]) # 1
    THEN PrepareFailed("AssertionError", sc)
    ELSE IF \E k \in DOMAIN X_list : \E i \in DOMAIN X_list[k] :
               \E c \in DOMAIN X_list[k][i] : X_list[k][i][c] = NaN
    THEN PrepareFailed("ValueError", sc)
    ELSE [ exc |-> "none", y_list |-> y_list, X_list |-> X_list,
           feature_cols |-> schema.feature_cols, feature_schema |-> schema,
           choice_set_ids |-> ids, scaler |-> sc ]

\* train.py 297-311: per group, sorted by alternative, the choice vector and
\* the matrix in the schema's column order
PrepareGroups(groups, ids, schema, sc) ==
    PrepareChecked(
        [ k \in DOMAIN groups |-> [ i \in DOMAIN groups[k] |-> groups[k][i].choice ] ],
        [ k \in DOMAIN groups |-> [ i \in DOMAIN groups[k] |-> Reindex(groups[k][i], schema.feature_cols) ] ],
        ids, schema, sc)

\* train.py 289-299: group by choice set, the groups in ascending order of id
GroupByChoiceSetMutUnsorted(rows, ids) ==
    [ k \in DOMAIN ids |-> RowsOf(rows, ids[k]) ]
GroupByChoiceSet(rows, ids) ==
    [ k \in DOMAIN ids |-> SortByAlternative(RowsOf(rows, ids[k])) ]

PrepareScaled(done, schema) ==
    PrepareGroups(GroupByChoiceSet(done.rows, SortedSeq(ChoiceSetIds(done.rows))),
                  SortedSeq(ChoiceSetIds(done.rows)), schema, done.scaler)

PrepareEncoded(enc, sc) ==
    IF enc.exc # "none" THEN PrepareFailed(enc.exc, sc)
    ELSE PrepareScaled(ScaleAndInteract(enc.encoded_df, enc.feature_schema, sc), enc.feature_schema)

\* train.py 251-320: [exc, y_list, X_list, feature_cols, feature_schema,
\* choice_set_ids, scaler]; scaler is the scaler object as the call leaves it
PrepareModelData(rows, schema_in, sc) ==
    PrepareEncoded(EncodeCategoricalFeatures(rows, schema_in), sc)

-----------------------------------------------------------------------------
(* predict_choice, train_mnl_model, evaluate_model *)

\* a sum of products with a NaN among the factors is NaN
Dot(x, beta) ==
    IF \E c \in DOMAIN beta : x[c] = NaN \/ beta[c] = NaN
    THEN NaN
    ELSE SumSeq([ c \in DOMAIN beta |-> x[c] * beta[c] ])

\* X @ beta: ValueError unless every row of X is as long as beta
MatVecMutTruncate(X, beta) ==
    Ok([ i \in DOMAIN X |->
           SumSeq([ c \in 1..Min(Len(X[i]), Len(beta)) |-> X[i][c] * beta[c] ]) ])
MatVec(X, beta) ==
    IF \E i \in DOMAIN X : Len(X[i]) # Len(beta)
    THEN Raise("ValueError")
    ELSE Ok([ i \in DOMAIN X |-> Dot(X[i], beta) ])

SeqMax(u) == CHOOSE m \in Range(u) : \A x \in Range(u) : x <= m

\* train.py 349-351, 535-537: the softmax of the utilities, after subtracting
\* the maximum.  Entry k is the probability exp(e[k]) / (exp(e[1]) + ... + exp(e[n])),
\* kept as its exponent e[k] = u[k] - max
\* and the exponents e of the sum.  With a NaN among the utilities the maximum
\* is NaN and so is every entry
Softmax(u) ==
    LET max_utility == IF NaN \in Range(u) THEN NaN ELSE SeqMax(u)
        e == [ k \in DOMAIN u |-> IF max_utility = NaN THEN NaN ELSE u[k] - max_utility ]
    IN  [ k \in DOMAIN u |-> [ exp |-> e[k], sum |-> e ] ]

\* train.py 515-539
PredictChoice(m, X) ==
    LET utilities == MatVec(X, m.coefficients)
    IN  IF utilities.exc # "none" THEN Raise(utilities.exc)
        ELSE IF utilities.val = << >> THEN Raise("ValueError")
        ELSE Ok(Softmax(utilities.val))

\* np.argmax(probs): the first index of the largest probability
ArgMaxMutLast(v) == CHOOSE k \in DOMAIN v :
                       /\ \A j \in DOMAIN v : v[j] <= v[k]
                       /\ \A j \in (k + 1)..Len(v) : v[j] < v[k]
ArgMax(v) == CHOOSE k \in DOMAIN v :
                /\ \A j \in DOMAIN v : v[j] <= v[k]
                /\ \A j \in 1..(k - 1) : v[j] < v[k]

\* the numbers that order softmax entries as their values do: the exponents
Exponents(p) == [ k \in DOMAIN p |-> p[k].exp ]

\* np.where(y == 1)[0]
WhereOne(y) == SelectSeq([ i \in DOMAIN y |-> i ], LAMBDA i : y[i] = 1)

\* the coefficient vectors the optimiser may return for n features: its
\* starting point, all zeros (seed 0), and vectors with entries -1, 0 and 1
BetaChoices(n) == { [ k \in 1..n |-> ((k * s) % 3) - Min(s, 1) ] : s \in 0..MaxSeed }

\* train.py 322-432, with beta_hat the point scipy's minimize returns;
\* log_likelihood is the sum of log(p + 1e-10) over the probabilities p listed
TrainMnlModelMutReversed(y_list, X_list, feature_names, beta_hat) ==
    [ coefficients   |-> [ k \in DOMAIN beta_hat |-> beta_hat[Len(beta_hat) + 1 - k] ],
      feature_names  |-> feature_names,
      log_likelihood |-> [ k \in DOMAIN y_list |->
                             Softmax(MatVec(X_list[k], beta_hat).val)[WhereOne(y_list[k])[1]] ],
      n_observations |-> Len(y_list),
      n_parameters   |-> Len(beta_hat) ]
TrainMnlModel(y_list, X_list, feature_names, beta_hat) ==
    LET with_choice == SelectSeq([ i \in DOMAIN y_list |-> i ], LAMBDA i : WhereOne(y_list[i]) # << >>)
    IN  [ coefficients   |-> beta_hat,
          feature_names  |-> feature_names,
          log_likelihood |-> [ k \in DOMAIN with_choice |->
                                 Softmax(MatVec(X_list[with_choice[k]], beta_hat).val)
                                     [WhereOne(y_list[with_choice[k]])[1]] ],
          n_observations |-> Len(y_list),
          n_parameters   |-> Len(beta_hat) ]

\* train.py 541-574: accuracy is correct / total, avg_chosen_prob the mean of
\* the probabilities listed
\* train.py 547-574, with the vectors predict_choice returned: probs_list[k]
\* are the probabilities of choice set k and order[k] numbers that order them
ScorePredictions(y_list, probs_list, order) ==
    LET n == Min(Len(y_list), Len(probs_list))
    IN  IF \E k \in 1..n : WhereOne(y_list[k]) = << >> THEN Raise("IndexError")
        ELSE IF Len(y_list) = 0 THEN Raise("ZeroDivisionError")
        ELSE LET hit == { k \in 1..n : ArgMax(order[k]) = WhereOne(y_list[k])[1] }
             IN  Ok([ accuracy        |-> [ num |-> Cardinality(hit), den |-> Len(y_list) ],
                      avg_chosen_prob |-> [ k \in 1..n |-> probs_list[k][WhereOne(y_list[k])[1]] ],
                      correct         |-> Cardinality(hit),
                      total           |-> Len(y_list) ])

EvaluateModel(m, y_list, X_list) ==
    LET n == Min(Len(y_list), Len(X_list))
    IN  IF \E k \in 1..n : PredictChoice(m, X_list[k]).exc # "none" THEN Raise("ValueError")
        ELSE ScorePredictions(y_list,
                              [ k \in 1..n |-> PredictChoice(m, X_list[k]).val ],
                              [ k \in 1..n |-> Exponents(PredictChoice(m, X_list[k]).val) ])

-----------------------------------------------------------------------------
(* encode_for_inference *)

\* user_profile.get(key, 0); a missing profile is all zeros
ProfileGet(profile, key) == IF key \in DOMAIN profile THEN profile[key] ELSE 0

\* train.py 493-507: the interaction columns of the inference encoder
AddInteractionsInference(row, schema) ==
    Assign(row,
        [ c \in Range(interaction_features) |->
            CASE c = "college_x_fuel_electric" ->
                    IF "fuel_electric" \in Range(schema.fuel_features)
                    THEN row["college"] * (IF "fuel_electric" \in DOMAIN row THEN row["fuel_electric"] ELSE 0)
                    ELSE 0
              [] c = "hsg2_x_size"   -> row["hsg2"] * row["size"]
              [] c = "coml5_x_price" -> row["coml5"] * row["price"] ])

\* train.py 471-482: the candidates with their position and the demographics
InferenceRowsMutZeroBased(df_candidates, user_profile) ==
    [ i \in DOMAIN df_candidates |->
        [ type           |-> Normalize(df_candidates[i].type),
          fuel           |-> Normalize(df_candidates[i].fuel),
          price          |-> df_candidates[i].price,
          speed          |-> df_candidates[i].speed,
          pollution      |-> df_candidates[i].pollution,
          size           |-> df_candidates[i].size,
          alternative_id |-> i - 1,
          college        |-> ProfileGet(user_profile, "college"),
          hsg2           |-> ProfileGet(user_profile, "hsg2"),
          coml5          |-> ProfileGet(user_profile, "coml5") ] ]
InferenceRows(df_candidates, user_profile) ==
    [ i \in DOMAIN df_candidates |->
        [ type           |-> Normalize(df_candidates[i].type),
          fuel           |-> Normalize(df_candidates[i].fuel),
          price          |-> df_candidates[i].price,
          speed          |-> df_candidates[i].speed,
          pollution      |-> df_candidates[i].pollution,
          size           |-> df_candidates[i].size,
          alternative_id |-> i,
          college        |-> ProfileGet(user_profile, "college"),
          hsg2           |-> ProfileGet(user_profile, "hsg2"),
          coml5          |-> ProfileGet(user_profile, "coml5") ] ]

\* train.py 493-513: the interactions, then the matrix in the schema's column order
InferenceMatrixMutReversed(scaled, schema) ==
    [ exc    |-> "none",
      val    |-> [ i \in DOMAIN scaled.rows |->
                     Reindex(AddInteractionsInference(scaled.rows[Len(scaled.rows) + 1 - i], schema),
                             schema.feature_cols) ],
      scaler |-> scaled.scaler ]
InferenceMatrix(scaled, schema) ==
    [ exc    |-> "none",
      val    |-> [ i \in DOMAIN scaled.rows |->
                     Reindex(AddInteractionsInference(scaled.rows[i], schema), schema.feature_cols) ],
      scaler |-> scaled.scaler ]

InferenceEncoded(enc, m) ==
    IF enc.exc # "none"
    THEN [ exc |-> enc.exc, val |-> << >>, scaler |-> m.scaler ]
    ELSE InferenceMatrix(ApplyScaler(m.scaler, enc.encoded_df, m.feature_schema.numeric_features),
                         m.feature_schema)

\* train.py 449-513: [exc, val, scaler]; scaler is the scaler object as the call leaves it
EncodeForInference(df_candidates, m, user_profile) ==
    InferenceEncoded(
        EncodeCategoricalFeatures(InferenceRows(df_candidates, user_profile), m.feature_schema), m)

-----------------------------------------------------------------------------
(* The wide tables the runs start from *)

TypePattern ==
    << << "van", "suv", "truck", "van", "suv", "truck" >>,
       << " Van ", "SUV", "wagon", "suv", "van", "truck" >>,
       << "suv", "truck", "suv", "truck", "suv", "truck" >>,
       << "van", "wagon", "van", "truck", "suv", "van" >>,
       << "wagon", "suv", "truck", "wagon", "suv", "truck" >> >>
FuelPattern ==
    << << "gasoline", "electric", "hybrid", "gasoline", "electric", "hybrid" >>,
       << "Gasoline ", "cng", "hybrid", "cng", "gasoline", "hybrid" >>,
       << "electric", "diesel", "electric", "diesel", "gasoline", "electric" >>,
       << "electric", "hybrid", "cng", "electric", "diesel", "hybrid" >>,
       << "diesel", "cng", "hybrid", "diesel", "cng", "electric" >> >>
Demographics == << << 1, 0, 1 >>, << 0, 1, 1 >>, << 1, 1, 2 >>, << 0, 0, 1 >>, << 1, 0, 0 >> >>

\* a cell that is no number: the alternative (0: the row's demographics), the column
BadCells == { << 0, "none" >>, << 1, "price" >>, << 6, "size" >>, << 3, "speed" >>, << 0, "college" >> }

Cell(bad, alt, col, n) == IF bad = << alt, col >> THEN << "n/a" >> ELSE Lit(n)

WideRow(tok, v, bad) ==
    [ choice  |-> tok,
      alts    |-> [ k \in 1..n_alternatives |->
                    [ type      |-> TypePattern[v][k],
                      fuel      |-> FuelPattern[v][k],
                      price     |-> Cell(bad, k, "price", ((k * v) % 5) + 1),
                      speed     |-> Cell(bad, k, "speed", ((k + v - 1) % 9) + 1),
                      pollution |-> Cell(bad, k, "pollution", 7 - k),
                      size      |-> Cell(bad, k, "size", (k + 2 * v) % 4) ] ],
      college |-> Cell(bad, 0, "college", Demographics[v][1]),
      hsg2    |-> Cell(bad, 0, "hsg2", Demographics[v][2]),
      coml5   |-> Cell(bad, 0, "coml5", Demographics[v][3]) ]

\* a CSV file without the optional demographic columns
WithoutDemographics(wide) ==
    [ i \in DOMAIN wide |-> [ c \in { "choice", "alts" } |-> wide[i][c] ] ]

\* choice fields: 'choice3', ' choice2 ', '3', 'choice7', '0', '-1', 'choicex',
\* 'choice', 'x', '3x', 'choice12'
ChoiceTokens ==
    { << "choice", "3" >>, << " ", "choice", "2", " " >>, << "3" >>,
      << "choice", "7" >>, << "0" >>, << "-", "1" >>,
      << "choice", "x" >>, << "choice" >>, << "x" >>, << "3", "x" >>,
      << "choice", "1", "2" >> }

SeqsUpTo(S, n) == UNION { [ 1..k -> S ] : k \in 1..n }

ReshapeRows ==
    { WideRow(tok, 1, << 0, "none" >>) : tok \in ChoiceTokens }
    \cup { WideRow(<< "choice", "6" >>, 2, bad) : bad \in BadCells }
    \cup { WideRow(<< "choice", "7" >>, 3, << 1, "price" >>),
            WideRow(<< "x" >>, 3, << 0, "college" >>) }

ReshapeTables == SeqsUpTo(ReshapeRows, MaxSets)

-----------------------------------------------------------------------------
(* State machine *)

Idle ==
    /\ long_df = << >> /\ warnings = {} /\ train_ids = {} /\ val_ids = {}
    /\ feature_schema = None /\ scaler = None /\ train_xy = None /\ val_xy = None
    /\ model = None /\ metrics = None /\ pkl = None /\ coeff_csv = << >>
    /\ trace = << >> /\ artifact = None /\ request = None /\ infer_X = << >>
    /\ probs = << >> /\ error = NoError

\* main, train.py 586: long_df = reshape_to_long_format(df)
ReshapeMutContinue ==
    /\ pc = "loaded"
    /\ LET r == ReshapeToLongFormat(df)
       IN  /\ warnings' = r.warnings
           /\ trace' = Append(trace, "reshape")
           /\ long_df' = r.val
           /\ pc' = "reshaped"
           /\ error' = IF r.exc = "none" THEN NoError ELSE [ at |-> "reshape", exc |-> r.exc ]
    /\ UNCHANGED << csv, df, train_ids, val_ids, feature_schema, scaler, train_xy,
                    val_xy, model, metrics, pkl, coeff_csv, artifact, request,
                    infer_X, probs >>
Reshape ==
    /\ pc = "loaded"
    /\ LET r == ReshapeToLongFormat(df)
       IN  /\ warnings' = r.warnings
           /\ trace' = Append(trace, "reshape")
           /\ IF r.exc = "none"
              THEN /\ long_df' = r.val
                   /\ pc' = "reshaped"
                   /\ error' = NoError
              ELSE /\ long_df' = << >>
                   /\ pc' = "aborted"
                   /\ error' = [ at |-> "reshape", exc |-> r.exc ]
    /\ UNCHANGED << csv, df, train_ids, val_ids, feature_schema, scaler, train_xy,
                    val_xy, model, metrics, pkl, coeff_csv, artifact, request,
                    infer_X, probs >>

\* main, train.py 583: df = load_data('Car.csv')
LoadData ==
    /\ pc = "start"
    /\ trace' = Append(trace, "load")
    /\ IF csv.exists
       THEN /\ df' = csv.rows
            /\ pc' = "loaded"
            /\ error' = NoError
       ELSE /\ df' = << >>
            /\ pc' = "aborted"
            /\ error' = [ at |-> "load", exc |-> "FileNotFoundError" ]
    /\ UNCHANGED << csv, long_df, warnings, train_ids, val_ids, feature_schema, scaler,
                    train_xy, val_xy, model, metrics, pkl, coeff_csv, artifact,
                    request, infer_X, probs >>

\* train.py 596-597: the rows of the choice sets named
RowsIn(rows, ids) == SelectSeq(rows, LAMBDA r : r.choice_set_id \in ids)

\* main, train.py 589-597: train_test_split(unique_choice_sets, test_size=0.2,
\* random_state=42); which sets the shuffle puts in the test part is left open
Split ==
    /\ pc = "reshaped"
    /\ trace' = Append(trace, "split")
    /\ LET unique_choice_sets == ChoiceSetIds(long_df)
           n       == Cardinality(unique_choice_sets)
           n_test  == (n + 4) \div 5
           n_train == n - n_test
       IN  IF n = 0 \/ n_train = 0
           THEN /\ pc' = "aborted"
                /\ error' = [ at |-> "split", exc |-> "ValueError" ]
                /\ UNCHANGED << train_ids, val_ids >>
           ELSE /\ \E test \in SUBSET unique_choice_sets :
                      /\ Cardinality(test) = n_test
                      /\ val_ids' = test
                      /\ train_ids' = unique_choice_sets \ test
                /\ pc' = "split"
                /\ error' = NoError
    /\ UNCHANGED << csv, df, long_df, warnings, feature_schema, scaler, train_xy,
                    val_xy, model, metrics, pkl, coeff_csv, artifact, request,
                    infer_X, probs >>

\* main, train.py 605: prepare_model_data(train_df) builds the schema
BuildSchema ==
    /\ pc = "split"
    /\ trace' = Append(trace, "build_schema")
    /\ LET r == PrepareModelData(RowsIn(long_df, train_ids), None, None)
       IN  IF r.exc = "none"
           THEN /\ train_xy' = r
                /\ feature_schema' = r.feature_schema
                /\ pc' = "schema"
                /\ error' = NoError
           ELSE /\ pc' = "aborted"
                /\ error' = [ at |-> "build_schema", exc |-> r.exc ]
                /\ UNCHANGED << train_xy, feature_schema >>
    /\ UNCHANGED << csv, df, long_df, warnings, train_ids, val_ids, scaler, val_xy,
                    model, metrics, pkl, coeff_csv, artifact, request, infer_X, probs >>

\* main, train.py 610-612: the scaler is fit on the encoded training rows
FitScaler ==
    /\ pc = "schema"
    /\ trace' = Append(trace, "fit_scaler")
    /\ LET train_encoded == EncodeCategoricalFeatures(RowsIn(long_df, train_ids), feature_schema)
       IN  scaler' = StandardScalerFit(train_encoded.encoded_df, feature_schema.numeric_features)
    /\ pc' = "scaled"
    /\ UNCHANGED << csv, df, long_df, warnings, train_ids, val_ids, feature_schema,
                    train_xy, val_xy, model, metrics, pkl, coeff_csv, artifact,
                    request, infer_X, probs, error >>

\* main, train.py 615-617: the training data again, with the schema and the scaler
PrepareTrain ==
    /\ pc = "scaled"
    /\ trace' = Append(trace, "prepare_train")
    /\ LET r == PrepareModelData(RowsIn(long_df, train_ids), feature_schema, scaler)
       IN  /\ scaler' = r.scaler
           /\ IF r.exc = "none"
              THEN /\ train_xy' = r
                   /\ feature_schema' = r.feature_schema
                   /\ pc' = "train_ready"
                   /\ error' = NoError
              ELSE /\ pc' = "aborted"
                   /\ error' = [ at |-> "prepare_train", exc |-> r.exc ]
                   /\ UNCHANGED << train_xy, feature_schema >>
    /\ UNCHANGED << csv, df, long_df, warnings, train_ids, val_ids, val_xy, model,
                    metrics, pkl, coeff_csv, artifact, request, infer_X, probs >>

\* main, train.py 621-623: the validation data, with the same schema and scaler
PrepareVal ==
    /\ pc = "train_ready"
    /\ trace' = Append(trace, "prepare_val")
    /\ LET r == PrepareModelData(RowsIn(long_df, val_ids), feature_schema, scaler)
       IN  /\ scaler' = r.scaler
           /\ IF r.exc = "none"
              THEN /\ val_xy' = r
                   /\ pc' = "val_ready"
                   /\ error' = NoError
              ELSE /\ pc' = "aborted"
                   /\ error' = [ at |-> "prepare_val", exc |-> r.exc ]
                   /\ UNCHANGED val_xy
    /\ UNCHANGED << csv, df, long_df, warnings, train_ids, val_ids, feature_schema,
                    train_xy, model, metrics, pkl, coeff_csv, artifact, request,
                    infer_X, probs >>

\* main, train.py 626: model = train_mnl_model(y_train, X_train, feature_names)
Train ==
    /\ pc = "val_ready"
    /\ trace' = Append(trace, "optimize")
    /\ \E beta_hat \in BetaChoices(Len(train_xy.X_list[1][1])) :
          model' = TrainMnlModel(train_xy.y_list, train_xy.X_list, train_xy.feature_cols, beta_hat)
    /\ pc' = "trained"
    /\ UNCHANGED << csv, df, long_df, warnings, train_ids, val_ids, feature_schema,
                    scaler, train_xy, val_xy, metrics, pkl, coeff_csv, artifact,
                    request, infer_X, probs, error >>

\* main, train.py 629: train_metrics = evaluate_model(model, y_train, X_train)
EvaluateTrain ==
    /\ pc = "trained"
    /\ trace' = Append(trace, "evaluate_train")
    /\ LET r == EvaluateModel(model, train_xy.y_list, train_xy.X_list)
       IN  IF r.exc = "none"
           THEN /\ metrics' = [ train |-> r.val ]
                /\ pc' = "evaluated_train"
                /\ error' = NoError
           ELSE /\ pc' = "aborted"
                /\ error' = [ at |-> "evaluate_train", exc |-> r.exc ]
                /\ UNCHANGED metrics
    /\ UNCHANGED << csv, df, long_df, warnings, train_ids, val_ids, feature_schema,
                    scaler, train_xy, val_xy, model, pkl, coeff_csv, artifact,
                    request, infer_X, probs >>

\* main, train.py 632: val_metrics = evaluate_model(model, y_val, X_val)
EvaluateVal ==
    /\ pc = "evaluated_train"
    /\ trace' = Append(trace, "evaluate_val")
    /\ LET r == EvaluateModel(model, val_xy.y_list, val_xy.X_list)
       IN  IF r.exc = "none"
           THEN /\ metrics' = [ train |-> metrics.train, val |-> r.val ]
                /\ pc' = "evaluated"
                /\ error' = NoError
           ELSE /\ pc' = "aborted"
                /\ error' = [ at |-> "evaluate_val", exc |-> r.exc ]
                /\ UNCHANGED metrics
    /\ UNCHANGED << csv, df, long_df, warnings, train_ids, val_ids, feature_schema,
                    scaler, train_xy, val_xy, model, pkl, coeff_csv, artifact,
                    request, infer_X, probs >>

\* main, train.py 635 and save_model, 434-447
SaveModel ==
    /\ pc = "evaluated"
    /\ trace' = Append(trace, "save")
    /\ pkl' = [ feature_schema |-> feature_schema, scaler |-> scaler ] @@ model
    /\ pc' = "saved"
    /\ UNCHANGED << csv, df, long_df, warnings, train_ids, val_ids, feature_schema,
                    scaler, train_xy, val_xy, model, metrics, coeff_csv, artifact,
                    request, infer_X, probs, error >>

\* main, train.py 638-643: the (feature, beta) table
ExportCoefficients ==
    /\ pc = "saved"
    /\ trace' = Append(trace, "export")
    /\ IF Len(train_xy.feature_cols) = Len(model.coefficients)
       THEN /\ coeff_csv' = [ k \in DOMAIN train_xy.feature_cols |->
                                [ feature |-> train_xy.feature_cols[k], beta |-> model.coefficients[k] ] ]
            /\ pc' = "done"
            /\ error' = NoError
       ELSE /\ pc' = "aborted"
            /\ error' = [ at |-> "export", exc |-> "ValueError" ]
            /\ UNCHANGED coeff_csv
    /\ UNCHANGED << csv, df, long_df, warnings, train_ids, val_ids, feature_schema,
                    scaler, train_xy, val_xy, model, metrics, pkl, artifact,
                    request, infer_X, probs >>

-----------------------------------------------------------------------------
(* The inference client: pickle.load, encode_for_inference, predict_choice *)

\* train.py 660-661: model = pickle.load(f) on the file main wrote
LoadArtifact ==
    /\ pc = "done"
    /\ artifact' = pkl
    /\ pc' = "serving"
    /\ UNCHANGED << csv, df, long_df, warnings, train_ids, val_ids, feature_schema,
                    scaler, train_xy, val_xy, model, metrics, pkl, coeff_csv, trace,
                    request, infer_X, probs, error >>

\* the candidates of the inference calls
Candidates ==
    << [ type |-> "SUV",   fuel |-> "electric",  price |-> 4, speed |-> 6, pollution |-> 2, size |-> 3 ],
       [ type |-> "wagon", fuel |-> "diesel",    price |-> 2, speed |-> 3, pollution |-> 5, size |-> 1 ],
       [ type |-> " Van ", fuel |-> "Gasoline ", price |-> 1, speed |-> 8, pollution |-> 6, size |-> 2 ],
       [ type |-> "truck", fuel |-> "hybrid",    price |-> 5, speed |-> 2, pollution |-> 1, size |-> 0 ] >>

\* candidate lists: n consecutive candidates from the first or the second one
CandidateLists ==
    { SubSeq(Candidates, start, start + n - 1) : n \in 1..MaxCands, start \in { 1, 2 } }

\* user profiles: none given, a full one, one with keys missing
Profiles == { None, [ college |-> 1, hsg2 |-> 1, coml5 |-> 2 ], [ hsg2 |-> 2 ] }

\* X = encode_for_inference(df_candidates, model, user_profile)
Encode ==
    /\ pc = "serving"
    /\ \E c \in CandidateLists, u \in Profiles :
          /\ request' = [ df_candidates |-> c, user_profile |-> u ]
          /\ LET r == EncodeForInference(c, artifact, u)
             IN  /\ artifact' = [ artifact EXCEPT !.scaler = r.scaler ]
                 /\ infer_X' = r.val
                 /\ IF r.exc = "none"
                    THEN pc' = "encoded" /\ error' = NoError
                    ELSE pc' = "failed" /\ error' = [ at |-> "encode_for_inference", exc |-> r.exc ]
    /\ probs' = << >>
    /\ UNCHANGED << csv, df, long_df, warnings, train_ids, val_ids, feature_schema,
                    scaler, train_xy, val_xy, model, metrics, pkl, coeff_csv, trace >>

\* probs = predict_choice(model, X)
Predict ==
    /\ pc = "encoded"
    /\ LET r == PredictChoice(artifact, infer_X)
       IN  IF r.exc = "none"
           THEN probs' = r.val /\ pc' = "predicted" /\ error' = NoError
           ELSE probs' = << >> /\ pc' = "failed"
                /\ error' = [ at |-> "predict_choice", exc |-> r.exc ]
    /\ UNCHANGED << csv, df, long_df, warnings, train_ids, val_ids, feature_schema,
                    scaler, train_xy, val_xy, model, metrics, pkl, coeff_csv, trace,
                    artifact, request, infer_X >>

\* the client is done with the call and its X and probs; the loaded model stays
NextCall ==
    /\ pc \in { "predicted", "failed" }
    /\ pc' = "serving"
    /\ request' = None
    /\ infer_X' = << >>
    /\ probs' = << >>
    /\ error' = NoError
    /\ UNCHANGED << csv, df, long_df, warnings, train_ids, val_ids, feature_schema,
                    scaler, train_xy, val_xy, model, metrics, pkl, coeff_csv, trace,
                    artifact >>

-----------------------------------------------------------------------------
(* Specifications *)

\* the rows of Car.csv in the pipeline runs
FileRows ==
    { WideRow(<< "choice", "3" >>, 1, << 0, "none" >>),
      WideRow(<< " ", "choice", "2", " " >>, 2, << 0, "none" >>),
      WideRow(<< "x" >>, 3, << 0, "none" >>),
      WideRow(<< "choice", "6" >>, 2, << 6, "size" >>),
      WideRow(<< "choice", "7" >>, 1, << 0, "none" >>) }

FileTables == SeqsUpTo(FileRows, MaxFileSets)

\* main() on a Car.csv, then inference calls on the model it saved
Init ==
    /\ \/ \E t \in FileTables : csv = [ exists |-> TRUE, rows |-> t ]
       \/ csv = [ exists |-> FALSE, rows |-> << >> ]
    /\ df = << >>
    /\ pc = "start"
    /\ Idle

Next ==
    \/ LoadData \/ Reshape \/ Split \/ BuildSchema \/ FitScaler \/ PrepareTrain
    \/ PrepareVal \/ Train \/ EvaluateTrain \/ EvaluateVal \/ SaveModel
    \/ ExportCoefficients \/ LoadArtifact \/ Encode \/ Predict \/ NextCall

Spec == Init /\ [][Next]_vars

\* reshape_to_long_format applied to a wide table, on its own
InitReshape ==
    /\ \E t \in ReshapeTables, demo \in BOOLEAN :
          df = IF demo THEN t ELSE WithoutDemographics(t)
    /\ csv = [ exists |-> TRUE, rows |-> << >> ]
    /\ pc = "loaded"
    /\ Idle

NextReshape == Reshape

SpecReshape == InitReshape /\ [][NextReshape]_vars

\* the rows of a table in another order
Reverse(rows) == [ i \in DOMAIN rows |-> rows[Len(rows) + 1 - i] ]
Interleave(rows) ==
    SelectSeq(rows, LAMBDA r : r.alternative_id % 2 = 0)
    \o SelectSeq(rows, LAMBDA r : r.alternative_id % 2 = 1)

\* long tables: valid choice sets of every pattern of types and fuels, their
\* rows in the order reshape_to_long_format gives, in the reverse order, or
\* with the even alternatives first
LongTables ==
    UNION { { ReshapeToLongFormat(t).val, Reverse(ReshapeToLongFormat(t).val),
              Interleave(ReshapeToLongFormat(t).val) } :
            t \in SeqsUpTo({ WideRow(<< "choice", Digits[v + 2] >>, v, << 0, "none" >>) :
                               v \in DOMAIN TypePattern }, MaxLongSets) }

\* the split and the prepare_model_data calls of main on a long table whose
\* rows are in any order
InitPrepare ==
    /\ long_df \in LongTables
    /\ csv = [ exists |-> TRUE, rows |-> << >> ]
    /\ df = << >>
    /\ pc = "reshaped"
    /\ warnings = {} /\ train_ids = {} /\ val_ids = {}
    /\ feature_schema = None /\ scaler = None /\ train_xy = None /\ val_xy = None
    /\ model = None /\ metrics = None /\ pkl = None /\ coeff_csv = << >>
    /\ trace = << "load", "reshape" >> /\ artifact = None /\ request = None
    /\ infer_X = << >> /\ probs = << >> /\ error = NoError

NextPrepare == Split \/ BuildSchema \/ FitScaler \/ PrepareTrain \/ PrepareVal

SpecPrepare == InitPrepare /\ [][NextPrepare]_vars

\* attribute matrices handed to predict_choice directly: rows of three
\* columns, some with a NaN entry
MatrixRows ==
    { << 1, 0, 2 >>, << 0, 1, 0 >>, << 2, 2, 1 >>, << 1, 1, 1 >>,
      << NaN, 0, 1 >>, << 0, 0, NaN >> }
Matrices == SeqsUpTo(MatrixRows, MaxCands)

\* predict_choice called with any coefficient vector and any non-empty matrix
InitPredict ==
    /\ infer_X \in Matrices
    /\ \E beta \in BetaChoices(3) : artifact = [ coefficients |-> beta ]
    /\ pc = "encoded"
    /\ csv = [ exists |-> FALSE, rows |-> << >> ]
    /\ df = << >> /\ long_df = << >>
    /\ warnings = {} /\ train_ids = {} /\ val_ids = {}
    /\ feature_schema = None /\ scaler = None /\ train_xy = None /\ val_xy = None
    /\ model = None /\ metrics = None /\ pkl = None /\ coeff_csv = << >>
    /\ trace = << >> /\ request = None
    /\ probs = << >> /\ error = NoError

NextPredict == Predict

SpecPredict == InitPredict /\ [][NextPredict]_vars

\* probability vectors predict_choice may return for three alternatives, in
\* hundredths, and choice vectors: one alternative chosen, or none
PredictedVectors ==
    { << 60, 30, 10 >>, << 20, 70, 10 >>, << 10, 30, 60 >>, << 40, 40, 20 >>, << 25, 25, 50 >> }
ChoiceVectors == { << 1, 0, 0 >>, << 0, 1, 0 >>, << 0, 0, 1 >>, << 0, 0, 0 >> }

\* evaluate_model at the point where predict_choice has returned for every
\* choice set
InitEvaluate ==
    /\ \E y_list \in SeqsUpTo(ChoiceVectors, MaxSets) :
       \E probs_list \in [ DOMAIN y_list -> PredictedVectors ] :
          request = [ y_list |-> y_list, probs_list |-> probs_list ]
    /\ pc = "predicted_all"
    /\ csv = [ exists |-> FALSE, rows |-> << >> ]
    /\ df = << >> /\ long_df = << >>
    /\ warnings = {} /\ train_ids = {} /\ val_ids = {}
    /\ feature_schema = None /\ scaler = None /\ train_xy = None /\ val_xy = None
    /\ model = None /\ metrics = None /\ pkl = None /\ coeff_csv = << >>
    /\ trace = << >> /\ artifact = None
    /\ infer_X = << >> /\ probs = << >> /\ error = NoError

\* train.py 551-574: the loop over the choice sets and the two averages
Score ==
    /\ pc = "predicted_all"
    /\ LET r == ScorePredictions(request.y_list, request.probs_list, request.probs_list)
       IN  IF r.exc = "none"
           THEN metrics' = r.val /\ pc' = "scored" /\ error' = NoError
           ELSE metrics' = None /\ pc' = "failed"
                /\ error' = [ at |-> "evaluate_model", exc |-> r.exc ]
    /\ UNCHANGED << csv, df, long_df, warnings, train_ids, val_ids, feature_schema,
                    scaler, train_xy, val_xy, model, pkl, coeff_csv, trace,
                    artifact, request, infer_X, probs >>

NextEvaluate == Score

SpecEvaluate == InitEvaluate /\ [][NextEvaluate]_vars

\* schemas of model files: with and without the levels wagon and electric
FileSchemas ==
    { BuildSchemaDict(SortedStrings(t), SortedStrings(f), Normalize(BASE_TYPE), Normalize(BASE_FUEL)) :
        t \in { { "van", "suv", "truck" }, { "van", "suv", "truck", "wagon" } },
        f \in { { "gasoline", "electric", "hybrid" }, { "gasoline", "cng", "diesel" } } }

\* scalers of model files
FileScalers ==
    { [ mean_  |-> [ c \in Range(numeric_features) |-> m ],
        scale_ |-> [ c \in Range(numeric_features) |-> d ] ] :
        m \in { 0, 3 }, d \in { 1, 2 } }

\* save_model, train.py 434-447: the dictionary a model file holds
ModelFile(schema, sc, beta) ==
    [ coefficients   |-> beta,
      feature_names  |-> schema.feature_cols,
      log_likelihood |-> << >>,
      n_observations |-> 0,
      n_parameters   |-> Len(beta),
      feature_schema |-> schema,
      scaler         |-> sc ]

\* model files whose coefficient vector may be longer or shorter than feature_cols
ModelFiles ==
    UNION { { ModelFile(schema, sc, beta) :
                beta \in UNION { BetaChoices(Len(schema.feature_cols) + skew) :
                                    skew \in (0 - MaxSkew)..MaxSkew } } :
            schema \in FileSchemas, sc \in FileScalers }

\* inference calls on a model file that main need not have written
InitInfer ==
    /\ pkl \in ModelFiles
    /\ csv = [ exists |-> FALSE, rows |-> << >> ]
    /\ df = << >>
    /\ pc = "done"
    /\ long_df = << >> /\ warnings = {} /\ train_ids = {} /\ val_ids = {}
    /\ feature_schema = None /\ scaler = None /\ train_xy = None /\ val_xy = None
    /\ model = None /\ metrics = None /\ coeff_csv = << >>
    /\ trace = << >> /\ artifact = None /\ request = None /\ infer_X = << >>
    /\ probs = << >> /\ error = NoError

NextInfer == LoadArtifact \/ Encode \/ Predict \/ NextCall

SpecInfer == InitInfer /\ [][NextInfer]_vars

-----------------------------------------------------------------------------
(* Properties of reshape_to_long_format *)

ReshapeRan      == \E i \in DOMAIN trace : trace[i] = "reshape"
ReshapeReturned == ReshapeRan /\ error.at # "reshape"
ReshapeRaised   == ReshapeRan /\ error.at = "reshape"

Spells(cell) == PyInt(cell).exc = "none"

\* a wide row one of whose numeric cells spells no number
RowHasMissing(w) ==
    \/ \E k \in 1..n_alternatives :
          ~Spells(w.alts[k].price) \/ ~Spells(w.alts[k].speed)
          \/ ~Spells(w.alts[k].pollution) \/ ~Spells(w.alts[k].size)
    \/ \E c \in { "college", "hsg2", "coml5" } : c \in DOMAIN w /\ ~Spells(w[c])

\* the choice field names no alternative 1..6 (and is not replaced by the default)
ChosenOutside(tok) ==
    LET p == ParseChoice(tok) IN p.exc # "none" \/ p.val \notin 1..n_alternatives

IsBareInt(s) == PyInt(s).exc = "none"
IsChoiceK(s) == StartsWithChoice(s) /\ PyInt(Tail(s)).exc = "none"
Unparseable(tok) == ~IsBareInt(Strip(tok)) /\ ~IsChoiceK(Strip(tok))

\* C1: when reshape_to_long_format returns, every choice set of the long table
\* has the 6 alternatives and exactly one chosen row; when a surviving choice
\* set would have no chosen row (choice index outside 1..6), it raises ValueError.
C1_ValidatedOrValueError ==
    /\ ReshapeReturned =>
          \A id \in ChoiceSetIds(long_df) :
              LET g == RowsOf(long_df, id)
              IN  /\ Len(g) = 6
                  /\ Cardinality({ k \in DOMAIN g : g[k].choice = 1 }) = 1
                  /\ \A k \in DOMAIN g : g[k].choice \in { 0, 1 }
    /\ ReshapeRan /\ (\E i \in DOMAIN df : ~RowHasMissing(df[i]) /\ ChosenOutside(df[i].choice))
          => ReshapeRaised /\ error.exc = "ValueError"

\* a clean choice set with choice index 7 next to a valid one: reshape raised
C1_Witness ==
    /\ ReshapeRaised /\ error.exc = "ValueError"
    /\ Len(df) = 2
    /\ ~RowHasMissing(df[1]) /\ ParseChoice(df[1].choice).exc = "none"
    /\ ParseChoice(df[1].choice).val \in 1..6
    /\ ~RowHasMissing(df[2]) /\ ParseChoice(df[2].choice).exc = "none"
    /\ ParseChoice(df[2].choice).val = 7

\* the long row the claim expects for alternative k of wide row w with index idx
ExpectedRow(w, idx, k) ==
    [ choice_set_id  |-> idx,
      alternative_id |-> k,
      choice         |-> IF ParseChoice(w.choice).val = k THEN 1 ELSE 0,
      type           |-> Normalize(w.alts[k].type),
      fuel           |-> Normalize(w.alts[k].fuel),
      price          |-> PyInt(w.alts[k].price).val,
      speed          |-> PyInt(w.alts[k].speed).val,
      pollution      |-> PyInt(w.alts[k].pollution).val,
      size           |-> PyInt(w.alts[k].size).val,
      college        |-> IF "college" \in DOMAIN w THEN PyInt(w.college).val ELSE 0,
      hsg2           |-> IF "hsg2" \in DOMAIN w THEN PyInt(w.hsg2).val ELSE 0,
      coml5          |-> IF "coml5" \in DOMAIN w THEN PyInt(w.coml5).val ELSE 0 ]

\* C2: the choice sets reshape_to_long_format returns are exactly the input
\* choice sets none of whose alternatives has a missing or unparseable numeric
\* value; those are kept whole, with values and alternative order unchanged,
\* and a choice set with such a value is removed with all its rows.
C2_DropsExactlyTheInvalidSets ==
    ReshapeReturned =>
        LET clean == { i \in DOMAIN df : ~RowHasMissing(df[i]) }
        IN  /\ ChoiceSetIds(long_df) = { i - 1 : i \in clean }
            /\ \A i \in clean :
                  RowsOf(long_df, i - 1) = [ k \in 1..6 |-> ExpectedRow(df[i], i - 1, k) ]
            /\ Len(long_df) = 6 * Cardinality(clean)
            /\ \A a, b \in DOMAIN long_df :
                  a < b => long_df[a].choice_set_id <= long_df[b].choice_set_id

\* a table with a dropped choice set before a kept one
C2_Witness ==
    /\ ReshapeReturned
    /\ Len(df) = 2
    /\ RowHasMissing(df[1]) /\ ~RowHasMissing(df[2])
    /\ ChoiceSetIds(long_df) = { 1 }

\* C3 as claimed: every wide row whose choice field cannot be parsed gets the
\* default-to-1 warning and alternative 1 chosen, and does not make reshape raise.
C3_UnparseableDefaultsToOne ==
    ReshapeRan =>
        \A i \in DOMAIN df :
            Unparseable(df[i].choice) /\ (\A j \in 1..(i - 1) : ~ChosenOutside(df[j].choice) \/ Unparseable(df[j].choice))
            => /\ (i - 1) \in warnings
               /\ ReshapeReturned /\ ~RowHasMissing(df[i])
                     => RowsOf(long_df, i - 1)[1].choice = 1
               /\ (\A j \in DOMAIN df : Unparseable(df[j].choice) \/ ~ChosenOutside(df[j].choice))
                     => ReshapeReturned

-----------------------------------------------------------------------------
(* Properties of the training pipeline and of inference *)

Did(label)   == \E i \in DOMAIN trace : trace[i] = label
Count(label) == Cardinality({ i \in DOMAIN trace : trace[i] = label })

\* the matrices of the training (validation) split come from the call that was
\* given the schema and the scaler
TrainPrepared == Did("prepare_train") /\ error.at # "prepare_train"
ValPrepared   == Did("prepare_val") /\ error.at # "prepare_val"
Encoded       == pc \in { "encoded", "predicted" }

\* main is running or has ended; the inference calls that follow leave its
\* variables as they are
InMain == pc \notin { "serving", "encoded", "predicted", "failed" }

\* the place of a column in the matrix rows of a schema
FeatureIndex(schema, name) ==
    CHOOSE k \in DOMAIN schema.feature_cols : schema.feature_cols[k] = name

\* the long row of an alternative of a choice set
LongRowOf(id, alt) ==
    CHOOSE r \in Range(long_df) : r.choice_set_id = id /\ r.alternative_id = alt

\* (x - mean) / std of one value, with the parameters of a scaler
ScaledValue(sc, c, x) == (x - sc.mean_[c]) \div sc.scale_[c]

\* the mean and the standard deviation (1 when it is 0) of a column of rows
MeanOf(rows, c) == SumSeq([ i \in DOMAIN rows |-> rows[i][c] ]) \div Len(rows)
StdOf(rows, c) ==
    LET v == SumSeq([ i \in DOMAIN rows |->
                        (rows[i][c] - MeanOf(rows, c)) * (rows[i][c] - MeanOf(rows, c)) ])
             \div Len(rows)
    IN  IF ISqrt(v) = 0 THEN 1 ELSE ISqrt(v)

\* the three interaction entries of matrix row x are the products of the
\* demographics with the scaled size and price and with the electric indicator
InteractionsFromScaled(x, raw, schema, sc) ==
    /\ x[FeatureIndex(schema, "hsg2_x_size")] = raw.hsg2 * ScaledValue(sc, "size", raw.size)
    /\ x[FeatureIndex(schema, "coml5_x_price")] = raw.coml5 * ScaledValue(sc, "price", raw.price)
    /\ x[FeatureIndex(schema, "college_x_fuel_electric")] =
          IF "fuel_electric" \in Range(schema.fuel_features)
          THEN raw.college * (IF Normalize(raw.fuel) = "electric" THEN 1 ELSE 0)
          ELSE 0

MatricesFromScaled(xy) ==
    \A k \in DOMAIN xy.X_list : \A i \in DOMAIN xy.X_list[k] :
        InteractionsFromScaled(xy.X_list[k][i], LongRowOf(xy.choice_set_ids[k], i),
                               feature_schema, scaler)

\* a candidate of the request with the demographics of its profile
RequestRow(i) ==
    [ type    |-> request.df_candidates[i].type,
      fuel    |-> request.df_candidates[i].fuel,
      price   |-> request.df_candidates[i].price,
      speed   |-> request.df_candidates[i].speed,
      pollution |-> request.df_candidates[i].pollution,
      size    |-> request.df_candidates[i].size,
      college |-> ProfileGet(request.user_profile, "college"),
      hsg2    |-> ProfileGet(request.user_profile, "hsg2"),
      coml5   |-> ProfileGet(request.user_profile, "coml5") ]

Mismatched ==
    artifact # None /\ Len(artifact.coefficients) # Len(artifact.feature_schema.feature_cols)

\* C5: on a loaded model whose coefficient vector is not as long as its
\* schema's feature_cols, no sequence of encode_for_inference and
\* predict_choice calls returns a probability vector: predict_choice raises
\* ValueError on every matrix the encoder returns.
C5_MismatchedArtifactRejected ==
    Mismatched =>
        /\ probs = << >>
        /\ pc # "predicted"
        /\ pc = "failed" => error.at = "predict_choice" /\ error.exc = "ValueError"
        /\ pc = "encoded" =>
              /\ infer_X # << >>
              /\ \A i \in DOMAIN infer_X :
                    Len(infer_X[i]) = Len(artifact.feature_schema.feature_cols)
              /\ PredictChoice(artifact, infer_X).exc = "ValueError"

\* predict_choice has raised on the two-row matrix of a model with one
\* coefficient too many
C5_Witness ==
    /\ Mismatched
    /\ Len(artifact.coefficients) = Len(artifact.feature_schema.feature_cols) + 1
    /\ pc = "failed" /\ error.at = "predict_choice" /\ error.exc = "ValueError"
    /\ Len(infer_X) = 2

\* the value column name of the matrix must hold for alternative alt with the
\* values raw, under a schema and a scaler
ExpectedValue(schema, sc, raw, alt, name) ==
    CASE name \in Range(schema.type_features) ->
            IF "type_" \o Normalize(raw.type) = name THEN 1 ELSE 0
      [] name \in Range(schema.fuel_features) ->
            IF "fuel_" \o Normalize(raw.fuel) = name THEN 1 ELSE 0
      [] name \in Range(numeric_features) -> ScaledValue(sc, name, raw[name])
      [] name \in Range(asc_features) ->
            IF name = "asc_alt" \o Digits[alt + 1] THEN 1 ELSE 0
      [] name = "hsg2_x_size" -> raw.hsg2 * ScaledValue(sc, "size", raw.size)
      [] name = "coml5_x_price" -> raw.coml5 * ScaledValue(sc, "price", raw.price)
      [] name = "college_x_fuel_electric" ->
            IF "fuel_electric" \in Range(schema.fuel_features)
            THEN raw.college * (IF Normalize(raw.fuel) = "electric" THEN 1 ELSE 0)
            ELSE 0

\* matrix row x has the columns feature_cols of the schema, in that order
RowInSchemaOrder(x, schema, sc, raw, alt) ==
    /\ DOMAIN x = DOMAIN schema.feature_cols
    /\ \A k \in DOMAIN x : x[k] = ExpectedValue(schema, sc, raw, alt, schema.feature_cols[k])

SplitInSchemaOrder(xy) ==
    \A k \in DOMAIN xy.X_list :
        /\ Len(xy.X_list[k]) = n_alternatives
        /\ \A i \in DOMAIN xy.X_list[k] :
              RowInSchemaOrder(xy.X_list[k][i], feature_schema, scaler,
                               LongRowOf(xy.choice_set_ids[k], i), i)

\* the levels of a categorical column in the rows of a split
LevelsIn(ids, col) == { r[col] : r \in Range(RowsIn(long_df, ids)) }

\* C6: the matrices of the training split, of the validation split and of an
\* inference request, encoded against the schema, have in every row exactly
\* the columns feature_cols in that order; a schema column whose level the
\* data lacks is all zeros and a level outside the schema gets no column.
C6_MatrixColumnsAreFeatureCols ==
    /\ TrainPrepared /\ InMain =>
          SplitInSchemaOrder(train_xy) /\ train_xy.feature_cols = feature_schema.feature_cols
    /\ ValPrepared /\ InMain =>
          SplitInSchemaOrder(val_xy) /\ val_xy.feature_cols = feature_schema.feature_cols
    /\ Encoded =>
          /\ Len(infer_X) = Len(request.df_candidates)
          /\ \A i \in DOMAIN infer_X :
                RowInSchemaOrder(infer_X[i], artifact.feature_schema, artifact.scaler,
                                 RequestRow(i), i)

\* the validation split lacks a type level of the schema and has a fuel level
\* the schema lacks
C6_Witness ==
    /\ ValPrepared /\ pc = "val_ready"
    /\ \E t \in Range(feature_schema.type_categories) :
          /\ t # feature_schema.type_base
          /\ t \notin LevelsIn(val_ids, "type")
          /\ \A k \in DOMAIN val_xy.X_list : \A i \in DOMAIN val_xy.X_list[k] :
                val_xy.X_list[k][i][FeatureIndex(feature_schema, "type_" \o t)] = 0
    /\ \E f \in LevelsIn(val_ids, "fuel") : f \notin Range(feature_schema.fuel_categories)

\* candidate i of the request has a type (a fuel) that is no level of the schema
UnseenType(i) ==
    Normalize(request.df_candidates[i].type) \notin Range(artifact.feature_schema.type_categories)
UnseenFuel(i) ==
    Normalize(request.df_candidates[i].fuel) \notin Range(artifact.feature_schema.fuel_categories)

\* p is the softmax of some utilities: entry k is exp(e[k]) / (exp(e[1]) + ... +
\* exp(e[n])) with the largest exponent 0, so every entry lies in (0, 1] and
\* the entries sum to 1
ValidProbabilities(p, n) ==
    /\ Len(p) = n /\ n >= 1
    /\ \A k \in DOMAIN p :
          /\ p[k].sum = [ j \in DOMAIN p |-> p[j].exp ]
          /\ p[k].exp # NaN
          /\ p[k].exp <= 0
    /\ \E k \in DOMAIN p : p[k].exp = 0

\* C7: a candidate whose type (fuel) is no level of the schema is encoded
\* without an error, with every type (fuel) indicator of its row 0 and the row
\* as wide as feature_cols, and predict_choice on the matrix returns a valid
\* probability vector (the model's coefficients being as long as feature_cols).
C7_UnseenCategoryIsAllZero ==
    /\ error.at # "encode_for_inference"
    /\ Encoded =>
          \A i \in DOMAIN request.df_candidates :
              /\ Len(infer_X[i]) = Len(artifact.feature_schema.feature_cols)
              /\ UnseenType(i) =>
                    \A c \in Range(artifact.feature_schema.type_features) :
                        infer_X[i][FeatureIndex(artifact.feature_schema, c)] = 0
              /\ UnseenFuel(i) =>
                    \A c \in Range(artifact.feature_schema.fuel_features) :
                        infer_X[i][FeatureIndex(artifact.feature_schema, c)] = 0
    /\ pc = "encoded" /\ ~Mismatched => PredictChoice(artifact, infer_X).exc = "none"
    /\ pc = "predicted" => ValidProbabilities(probs, Len(request.df_candidates))

\* a prediction for two candidates, the first of a seen type and fuel with an
\* indicator set, the second of an unseen type and an unseen fuel
C7_Witness ==
    /\ pc = "predicted" /\ Len(request.df_candidates) = 2
    /\ ~UnseenType(1) /\ ~UnseenFuel(1)
    /\ \E c \in Range(artifact.feature_schema.type_features) :
          infer_X[1][FeatureIndex(artifact.feature_schema, c)] = 1
    /\ UnseenType(2) /\ UnseenFuel(2)

\* the rows of a choice set as the candidates of a request, and its demographics
CandidatesOf(id) ==
    [ i \in 1..n_alternatives |->
        [ type      |-> LongRowOf(id, i).type,
          fuel      |-> LongRowOf(id, i).fuel,
          price     |-> LongRowOf(id, i).price,
          speed     |-> LongRowOf(id, i).speed,
          pollution |-> LongRowOf(id, i).pollution,
          size      |-> LongRowOf(id, i).size ] ]
ProfileOf(id) ==
    [ college |-> LongRowOf(id, 1).college,
      hsg2    |-> LongRowOf(id, 1).hsg2,
      coml5   |-> LongRowOf(id, 1).coml5 ]

\* encode_for_inference on the alternatives of the choice sets of a split gives
\* the matrices prepare_model_data gave
Parity(xy) ==
    \A k \in DOMAIN xy.X_list :
        EncodeForInference(CandidatesOf(xy.choice_set_ids[k]),
                           [ feature_schema |-> feature_schema, scaler |-> scaler ],
                           ProfileOf(xy.choice_set_ids[k]))
            = [ exc |-> "none", val |-> xy.X_list[k], scaler |-> scaler ]

\* C8: for the same schema, scaler, demographics and alternative position,
\* encode_for_inference produces for the alternatives of a choice set exactly
\* the feature rows prepare_model_data, called with that schema and scaler,
\* produces for them, on the training split and on the validation split.
C8_TrainInferenceParity ==
    /\ pc = "train_ready" => Parity(train_xy)
    /\ pc = "val_ready" => Parity(train_xy) /\ Parity(val_xy)

\* parity was checked on a validation set with a nonzero interaction value, an
\* electric alternative and a fuel level the schema lacks
C8_Witness ==
    /\ pc = "val_ready"
    /\ \E k \in DOMAIN val_xy.X_list : \E i \in DOMAIN val_xy.X_list[k] :
          /\ val_xy.X_list[k][i][FeatureIndex(feature_schema, "coml5_x_price")] # 0
          /\ val_xy.X_list[k][i][FeatureIndex(feature_schema, "college_x_fuel_electric")] # 0
    /\ \E r \in Range(RowsIn(long_df, val_ids)) :
          r.fuel \notin Range(feature_schema.fuel_categories)

\* the calls of main, in the order of its lines
Steps ==
    << "load", "reshape", "split", "build_schema", "fit_scaler", "prepare_train",
       "prepare_val", "optimize", "evaluate_train", "evaluate_val", "save", "export" >>

\* C9: when reshape_to_long_format raises (a surviving choice set without
\* exactly one chosen alternative), main ends there: no split, no schema or
\* scaler fit, no optimiser call, no model file and no coefficient export;
\* and the calls of every run are an initial part of load, reshape, split, fit
\* schema and scaler, optimise, evaluate, persist, the whole of it when main
\* completes.
C9_AbortBeforeFitAndStepOrder ==
    /\ Len(trace) <= Len(Steps) /\ trace = SubSeq(Steps, 1, Len(trace))
    /\ ReshapeRan /\ ~ReshapeRaised /\ InMain =>
          \A i \in DOMAIN df : RowHasMissing(df[i]) \/ ~ChosenOutside(df[i].choice)
    /\ ReshapeRaised =>
          /\ pc = "aborted" /\ trace = << "load", "reshape" >>
          /\ train_ids = {} /\ val_ids = {} /\ feature_schema = None /\ scaler = None
          /\ train_xy = None /\ val_xy = None /\ model = None /\ metrics = None
          /\ pkl = None /\ coeff_csv = << >> /\ artifact = None
    /\ pkl # None => Did("save") /\ model # None
    /\ coeff_csv # << >> => Did("export")
    /\ pc \in { "done", "serving", "encoded", "predicted", "failed" } =>
          trace = Steps /\ pkl # None /\ coeff_csv # << >>

\* reshape raised on a file whose first choice set is valid and whose second
\* has choice index 7
C9_Witness ==
    /\ ReshapeRaised /\ pc = "aborted" /\ error.exc = "ValueError"
    /\ Len(df) >= 2
    /\ ~RowHasMissing(df[1]) /\ ~ChosenOutside(df[1].choice)
    /\ ~RowHasMissing(df[2]) /\ ChosenOutside(df[2].choice)

\* the parts of the loaded model that inference may not change
Frozen(a) == [ feature_schema |-> a.feature_schema, scaler |-> a.scaler,
               coefficients |-> a.coefficients ]

\* C10: once main has the schema and the scaler, no later step changes
\* feature_cols, the category levels, the bases or the scaler's mean and
\* standard deviation: prepare_model_data returns the schema it was given, the
\* model file holds that schema and scaler, and inference calls leave the
\* schema and the scaler of the loaded model as they were.
C10_SchemaAndScalerFrozen ==
    /\ [][ /\ feature_schema # None => feature_schema' = feature_schema
           /\ scaler # None => scaler' = scaler
           /\ artifact # None => Frozen(artifact') = Frozen(artifact) ]_vars
    /\ [](/\ TrainPrepared => /\ train_xy.feature_schema = feature_schema
                              /\ train_xy.scaler = scaler
          /\ ValPrepared => /\ val_xy.feature_schema = feature_schema
                            /\ val_xy.scaler = scaler
          /\ pkl # None /\ Did("save") => /\ pkl.feature_schema = feature_schema
                                          /\ pkl.scaler = scaler
          /\ artifact # None => artifact = pkl)

\* a prediction was made after a validation split whose levels and column
\* means differ from those of the schema and the scaler
C10_Witness ==
    /\ pc = "predicted" /\ Did("prepare_val")
    /\ LevelsIn(val_ids, "type") \cup { feature_schema.type_base } # Range(feature_schema.type_categories)
    /\ \E c \in Range(numeric_features) :
          MeanOf(RowsIn(long_df, val_ids), c) # scaler.mean_[c]
    /\ \E i \in DOMAIN request.df_candidates : UnseenFuel(i)

-----------------------------------------------------------------------------
\* the place of a level in the order of sorted()
LexPos(v) == CHOOSE i \in DOMAIN LexOrder : LexOrder[i] = v

\* the normalised levels of a column among the rows of the training split
TrainLevels(col) == { Normalize(v) : v \in LevelsIn(train_ids, col) }

\* names holds one indicator name per level of levels other than base, the
\* levels ascending
SortedIndicators(names, prefix, levels, base) ==
    /\ Len(names) = Cardinality(levels \ { base })
    /\ \A l \in levels \ { base } : \E i \in DOMAIN names : names[i] = prefix \o l
    /\ \A i, j \in DOMAIN names : i < j =>
          \E l1, l2 \in levels \ { base } :
              /\ names[i] = prefix \o l1 /\ names[j] = prefix \o l2
              /\ LexPos(l1) < LexPos(l2)

SchemaColumnsInOrder(fc, nt, nf) ==
    /\ Len(fc) = nt + nf + 12
    /\ SortedIndicators(SubSeq(fc, 1, nt), "type_", TrainLevels("type"), "van")
    /\ SortedIndicators(SubSeq(fc, nt + 1, nt + nf), "fuel_", TrainLevels("fuel"), "gasoline")
    /\ SubSeq(fc, nt + nf + 1, nt + nf + 4) = << "price", "speed", "pollution", "size" >>
    /\ SubSeq(fc, nt + nf + 5, nt + nf + 9)
          = << "asc_alt2", "asc_alt3", "asc_alt4", "asc_alt5", "asc_alt6" >>
    /\ SubSeq(fc, nt + nf + 10, nt + nf + 12)
          = << "college_x_fuel_electric", "hsg2_x_size", "coml5_x_price" >>
    /\ { "type_van", "fuel_gasoline", "asc_alt1" } \cap Range(fc) = {}

\* C11: the feature_cols of a schema built from the training split are, in
\* this order, one indicator per type level other than the base (levels
\* sorted), one per fuel level other than the base (levels sorted), price,
\* speed, pollution, size, asc_alt2 .. asc_alt6 and the three interaction
\* features; the base type, the base fuel and alternative 1 have no column.
C11_FeatureColsConcatenation ==
    feature_schema # None =>
        SchemaColumnsInOrder(feature_schema.feature_cols,
                             Cardinality(TrainLevels("type") \ { "van" }),
                             Cardinality(TrainLevels("fuel") \ { "gasoline" }))

\* a schema was built from a training split with several levels besides the
\* bases, given in an order that is not the sorted one
C11_Witness ==
    /\ pc = "schema" /\ feature_schema # None
    /\ Cardinality(TrainLevels("type")) >= 3
    /\ Cardinality(TrainLevels("fuel")) >= 4
    /\ \E i \in DOMAIN long_df : i < Len(long_df) /\
          long_df[i].choice_set_id \in train_ids /\ long_df[i + 1].choice_set_id \in train_ids /\
          LexPos(Normalize(long_df[i].type)) > LexPos(Normalize(long_df[i + 1].type))

\* both configured bases are among the levels of the training split
BasesObserved == "van" \in TrainLevels("type") /\ "gasoline" \in TrainLevels("fuel")

\* C12: building the schema from a training split that lacks the base type
\* van or the base fuel gasoline raises ValueError and leaves main without a
\* schema; with both bases among the levels the schema is built.
C12_BaseAbsentRaisesValueError ==
    Did("build_schema") =>
        IF BasesObserved
        THEN feature_schema # None /\ error.at # "build_schema"
        ELSE /\ feature_schema = None /\ train_xy = None
             /\ error = [ at |-> "build_schema", exc |-> "ValueError" ]
             /\ pc = "aborted"

\* the schema build failed on a training split that has the base type but
\* not the base fuel
C12_Witness ==
    /\ Did("build_schema") /\ error.at = "build_schema"
    /\ "van" \in TrainLevels("type")
    /\ "gasoline" \notin TrainLevels("fuel")
    /\ Cardinality(train_ids) = 2

\* C13: for every coefficient vector and every non-empty attribute matrix
\* predict_choice returns one probability per row, each the softmax entry of
\* the row's utility less the largest utility, all of them non-negative and
\* summing to 1.
C13_ProbabilitiesNonNegativeSumToOne ==
    pc \in { "predicted", "failed" } /\ request = None =>
        /\ pc = "predicted"
        /\ ValidProbabilities(probs, Len(infer_X))
        /\ \A k \in DOMAIN probs : \A j \in DOMAIN probs :
              probs[k].exp - probs[j].exp
                  = SumSeq([ c \in 1..3 |-> infer_X[k][c] * artifact.coefficients[c] ])
                    - SumSeq([ c \in 1..3 |-> infer_X[j][c] * artifact.coefficients[c] ])

\* the utility of the k-th candidate of the request under the loaded model
CandidateUtility(k) ==
    SumSeq([ c \in DOMAIN artifact.coefficients |->
               ExpectedValue(artifact.feature_schema, artifact.scaler, RequestRow(k), k,
                             artifact.feature_schema.feature_cols[c])
               * artifact.coefficients[c] ])

\* C14: encode_for_inference followed by predict_choice on n candidates
\* returns n probabilities, and the k-th is the softmax entry of the k-th
\* candidate of the list: the exponents of any two entries differ as the
\* utilities of the two candidates do, and every entry is normalised over all n.
C14_OneProbabilityPerCandidateInOrder ==
    pc = "predicted" /\ request # None =>
        /\ Len(probs) = Len(request.df_candidates)
        /\ Len(infer_X) = Len(request.df_candidates)
        /\ \A k \in DOMAIN probs :
              /\ Len(probs[k].sum) = Len(request.df_candidates)
              /\ \A j \in DOMAIN probs :
                    /\ probs[k].sum[j] = probs[j].exp
                    /\ probs[k].exp - probs[j].exp = CandidateUtility(k) - CandidateUtility(j)

\* a prediction for two candidates, the second of the larger utility
C14_Witness ==
    /\ pc = "predicted" /\ request # None
    /\ Len(request.df_candidates) = 2
    /\ CandidateUtility(1) < CandidateUtility(2)
    /\ probs[1].exp < probs[2].exp

\* the utility of alternative i of the k-th training choice set, each
\* coefficient of the model multiplied with the feature column of its place
TrainUtility(k, i) ==
    SumSeq([ c \in DOMAIN feature_schema.feature_cols |->
               ExpectedValue(feature_schema, scaler, LongRowOf(train_xy.choice_set_ids[k], i), i,
                             feature_schema.feature_cols[c])
               * model.coefficients[c] ])

\* C15: the model train_mnl_model returns in main has one coefficient per
\* column of feature_cols, the k-th being the one the likelihood multiplies
\* with the k-th column; the saved model holds that vector with the schema,
\* and row k of the exported table is (feature_cols[k], coefficients[k]).  The
\* likelihood is compared when train_mnl_model has just returned.
C15_CoefficientsAlignedWithFeatureCols ==
    /\ model # None =>
          /\ Len(model.coefficients) = Len(feature_schema.feature_cols)
          /\ model.feature_names = feature_schema.feature_cols
          /\ model.n_parameters = Len(feature_schema.feature_cols)
          /\ Len(model.log_likelihood) = Len(train_xy.X_list)
    /\ pc = "trained" =>
          \A k \in DOMAIN model.log_likelihood : \A i, j \in 1..n_alternatives :
              model.log_likelihood[k].sum[i] - model.log_likelihood[k].sum[j]
                  = TrainUtility(k, i) - TrainUtility(k, j)
    /\ Did("save") =>
          /\ pkl.coefficients = model.coefficients
          /\ pkl.feature_names = feature_schema.feature_cols
          /\ pkl.feature_schema = feature_schema
    /\ Did("export") =>
          /\ error.at # "export"
          /\ Len(coeff_csv) = Len(feature_schema.feature_cols)
          /\ \A k \in DOMAIN coeff_csv :
                coeff_csv[k] = [ feature |-> feature_schema.feature_cols[k],
                                 beta    |-> model.coefficients[k] ]

\* main has exported the table of a model whose coefficients are not all the
\* same and whose training utilities differ within a choice set
C15_Witness ==
    /\ pc = "done"
    /\ \E a, b \in DOMAIN coeff_csv : a < b /\ coeff_csv[a].beta = 1 /\ coeff_csv[b].beta = -1
    /\ \E k \in DOMAIN train_xy.X_list : TrainUtility(k, 1) # TrainUtility(k, 2)

\* the alternative chosen in choice set k of the evaluation call
ChosenIn(k) == CHOOSE i \in DOMAIN request.y_list[k] : request.y_list[k][i] = 1

\* choice set k counts as correct: no alternative has a higher probability
\* than the chosen one and none before it has the same (argmax takes the first)
TopOne(k) ==
    /\ \A i \in DOMAIN request.probs_list[k] :
          request.probs_list[k][i] <= request.probs_list[k][ChosenIn(k)]
    /\ \A i \in 1..(ChosenIn(k) - 1) :
          request.probs_list[k][i] < request.probs_list[k][ChosenIn(k)]

\* C16: evaluate_model returns as accuracy the number of choice sets whose
\* highest-probability alternative is the chosen one over the number of
\* choice sets, and as avg_chosen_prob the mean of the probabilities of the
\* chosen alternatives; the predictions [0.6, 0.3, 0.1] with the first
\* alternative chosen and [0.2, 0.7, 0.1] with the second give accuracy 1.0
\* and average chosen probability 0.65.
C16_AccuracyAndAvgChosenProb ==
    pc = "scored" =>
        /\ metrics.total = Len(request.y_list)
        /\ metrics.correct = Cardinality({ k \in DOMAIN request.y_list : TopOne(k) })
        /\ metrics.accuracy = [ num |-> metrics.correct, den |-> metrics.total ]
        /\ metrics.avg_chosen_prob
              = [ k \in DOMAIN request.y_list |-> request.probs_list[k][ChosenIn(k)] ]
        /\ ( /\ request.probs_list = << << 60, 30, 10 >>, << 20, 70, 10 >> >>
             /\ request.y_list = << << 1, 0, 0 >>, << 0, 1, 0 >> >> )
           => /\ metrics.accuracy.num = 1 * metrics.accuracy.den
              /\ SumSeq(metrics.avg_chosen_prob) = 65 * Len(metrics.avg_chosen_prob)

\* the evaluation of the two predictions of the scenario
C16_Witness ==
    /\ pc = "scored"
    /\ request.probs_list = << << 60, 30, 10 >>, << 20, 70, 10 >> >>
    /\ request.y_list = << << 1, 0, 0 >>, << 0, 1, 0 >> >>
    /\ metrics.correct = 2 /\ metrics.total = 2

\* a numeric value as a call of prepare_model_data with scaler sc leaves it
PreparedValue(sc, c, x) == IF sc = None THEN x ELSE ScaledValue(sc, c, x)

\* row i of every matrix of xy and entry i of every choice vector describe
\* alternative i of the choice set: its choice flag, its four numeric values
\* and its ASC indicator
OrderedByAlternative(xy) ==
    \A k \in DOMAIN xy.X_list :
        /\ Len(xy.X_list[k]) = n_alternatives
        /\ Len(xy.y_list[k]) = n_alternatives
        /\ \A i \in 1..n_alternatives :
              /\ xy.y_list[k][i] = LongRowOf(xy.choice_set_ids[k], i).choice
              /\ \A c \in { "price", "speed", "pollution", "size" } :
                    xy.X_list[k][i][FeatureIndex(xy.feature_schema, c)]
                        = PreparedValue(xy.scaler, c, LongRowOf(xy.choice_set_ids[k], i)[c])
              /\ \A a \in 2..n_alternatives :
                    xy.X_list[k][i][FeatureIndex(xy.feature_schema, "asc_alt" \o Digits[a + 1])]
                        = IF a = i THEN 1 ELSE 0

\* some choice set of the split has a row of a higher alternative before a
\* row of a lower one in the long table
OutOfOrder(ids) ==
    \E i, j \in DOMAIN long_df :
        /\ i < j
        /\ long_df[i].choice_set_id \in ids
        /\ long_df[i].choice_set_id = long_df[j].choice_set_id
        /\ long_df[i].alternative_id > long_df[j].alternative_id

\* C17: whatever the order of the rows of the long table, in every choice set
\* prepare_model_data assembles, for the training split and for the
\* validation split alike, row k of X and entry k of y describe the
\* alternative with alternative_id k.
C17_RowsOrderedByAlternativeId ==
    /\ train_xy # None => OrderedByAlternative(train_xy)
    /\ val_xy # None => OrderedByAlternative(val_xy)

\* both splits were prepared from a long table whose rows are out of order
\* in a training and in a validation choice set, a later alternative chosen
C17_Witness ==
    /\ pc = "val_ready" /\ train_xy # None /\ val_xy # None
    /\ OutOfOrder(train_ids) /\ OutOfOrder(val_ids)
    /\ \E k \in DOMAIN val_xy.y_list : val_xy.y_list[k][1] = 0
    /\ Len(train_xy.X_list) = 2

=============================================================================
